---- MODULE Spec2Model ----
(***************************************************************************)
(* Beautifi Financing Portal Watcher: one poll cycle scrapes the portal,   *)
(* diffs the scraped applications against the rows of the Applications     *)
(* sheet, sends Slack notifications for the changes, upserts the sheet and *)
(* appends a run-log entry.                                                *)
(*                                                                         *)
(* JavaScript strings are sequences of one-character strings, so that      *)
(* toLowerCase, includes, parseFloat and number formatting are computed.   *)
(* Nullable values (number | string | null | undefined) are JSValue        *)
(* records.  Enum-like literals of the code (change types, field names,    *)
(* run status) stay TLA+ strings.                                          *)
(***************************************************************************)
EXTENDS Integers, Sequences, FiniteSets, TLC

(***************************************************************************)
(* Bounds of the model.                                                    *)
(***************************************************************************)
\* cycles (cron invocations of main) explored by Spec
MaxCycles == 2
\* applications one scrape returns in Spec
MaxObserved == 2
\* Slack sends that may fail within one notifyChanges call
MaxSendFailures == 1

(***************************************************************************)
(* Strings.                                                                *)
(***************************************************************************)
EMPTY == <<>>

TAB_IN_PROGRESS == <<"I", "n", "-", "P", "r", "o", "g", "r", "e", "s", "s">>
TAB_SUBMITTED == <<"S", "u", "b", "m", "i", "t", "t", "e", "d">>
TAB_ACCEPTED == <<"A", "c", "c", "e", "p", "t", "e", "d", " ", "&", " ", "A", "p", "p", "r", "o", "v", "e", "d">>
TAB_FUNDED == <<"F", "u", "n", "d", "e", "d">>

\* extractor.ts: const TABS_TO_SCRAPE
TABS_TO_SCRAPE == <<TAB_IN_PROGRESS, TAB_SUBMITTED, TAB_ACCEPTED, TAB_FUNDED>>

\* status badge texts used as inputs
StApproved == <<"A", "p", "p", "r", "o", "v", "e", "d">>
StClosed == <<"C", "l", "o", "s", "e", "d">>
StClosedUpper == <<"C", "L", "O", "S", "E", "D">>
StNA == <<"N", "/", "A">>
StContact == <<"C", "o", "n", "t", "a", "c", "t", " ", "B", "e", "a", "u", "t", "i", "f", "i">>
StFunded == <<"F", "u", "n", "d", "e", "d">>

\* literals of the code
kwClosed == <<"c", "l", "o", "s", "e", "d">>
kwNA == <<"n", "/", "a">>
kwContact == <<"c", "o", "n", "t", "a", "c", "t", " ", "b", "e", "a", "u", "t", "i", "f", "i">>
kwFunded == <<"f", "u", "n", "d", "e", "d">>

UpperToLower ==
  "A" :> "a" @@ "B" :> "b" @@ "C" :> "c" @@ "D" :> "d" @@ "E" :> "e" @@ "F" :> "f" @@
  "G" :> "g" @@ "H" :> "h" @@ "I" :> "i" @@ "J" :> "j" @@ "K" :> "k" @@ "L" :> "l" @@
  "M" :> "m" @@ "N" :> "n" @@ "O" :> "o" @@ "P" :> "p" @@ "Q" :> "q" @@ "R" :> "r" @@
  "S" :> "s" @@ "T" :> "t" @@ "U" :> "u" @@ "V" :> "v" @@ "W" :> "w" @@ "X" :> "x" @@
  "Y" :> "y" @@ "Z" :> "z"

\* String.prototype.toLowerCase
ToLowerCase(s) ==
  [i \in 1..Len(s) |-> IF s[i] \in DOMAIN UpperToLower THEN UpperToLower[s[i]] ELSE s[i]]

\* String.prototype.includes
Includes(s, needle) ==
  \E i \in 0..(Len(s) - Len(needle)) : SubSeq(s, i + 1, i + Len(needle)) = needle

(***************************************************************************)
(* JavaScript values: number | string | null | undefined.                  *)
(***************************************************************************)
Null == [kind |-> "null", num |-> 0, str |-> EMPTY]
Undefined == [kind |-> "undefined", num |-> 0, str |-> EMPTY]
Num(n) == [kind |-> "number", num |-> n, str |-> EMPTY]
Str(s) == [kind |-> "string", num |-> 0, str |-> s]

\* JavaScript truthiness of a value
Truthy(v) ==
  \/ v.kind = "number" /\ v.num # 0
  \/ v.kind = "string" /\ v.str # EMPTY

DigitChars == <<"0", "1", "2", "3", "4", "5", "6", "7", "8", "9">>

\* the text Sheets returns for a number cell (FORMATTED_VALUE of a RAW integer)
RECURSIVE NumberToText(_)
NumberToText(n) ==
  IF n < Len(DigitChars) THEN <<DigitChars[n + 1]>>
  ELSE Append(NumberToText(n \div Len(DigitChars)), DigitChars[(n % Len(DigitChars)) + 1])

DigitValue(c) == CHOOSE d \in 0..(Len(DigitChars) - 1) : DigitChars[d + 1] = c

\* parseFloat on the digit strings the sheet holds for amounts
RECURSIVE ParseFloat(_)
ParseFloat(s) ==
  IF Len(s) = 1 THEN DigitValue(s[1])
  ELSE ParseFloat(SubSeq(s, 1, Len(s) - 1)) * Len(DigitChars) + DigitValue(s[Len(s)])

(***************************************************************************)
(* Diff engine (diff/engine.ts).  A scraped application is a record        *)
(* [applicationId, tab, status, requestedAmount, approvedAmount, notes,    *)
(* lossReason]; a Change refers to its application by the application's    *)
(* position in the scraped array (the object reference of the code).       *)
(***************************************************************************)
closedStatuses == <<kwClosed, kwNA, kwContact>>

\* mutant of isClosed: the status is matched without toLowerCase
isClosedCaseSensitive(status) ==
  \E i \in 1..Len(closedStatuses) : Includes(status, closedStatuses[i])

\* closedStatuses.some(s => scraped.status.toLowerCase().includes(s))
isClosed(status) ==
  \E i \in 1..Len(closedStatuses) : Includes(ToLowerCase(status), closedStatuses[i])

\* mutant of statusChanges: a closure pushes the closed event and, the else
\* being lost, the status_change event too
statusChangesBoth(scraped, stored, ref) ==
  IF scraped.status # EMPTY /\ scraped.status # stored.status
  THEN (IF isClosed(scraped.status) /\ Truthy(scraped.lossReason)
        THEN << [type |-> "closed", application |-> ref,
                 previousValue |-> Str(stored.status),
                 newValue |-> Str(scraped.status), field |-> "status"] >>
        ELSE << >>)
       \o << [type |-> "status_change", application |-> ref,
              previousValue |-> Str(stored.status),
              newValue |-> Str(scraped.status), field |-> "status"] >>
  ELSE << >>

\* detectChanges: the status check
statusChanges(scraped, stored, ref) ==
  IF scraped.status # EMPTY /\ scraped.status # stored.status
  THEN IF isClosed(scraped.status) /\ Truthy(scraped.lossReason)
       THEN << [type |-> "closed", application |-> ref,
                previousValue |-> Str(stored.status),
                newValue |-> Str(scraped.status), field |-> "status"] >>
       ELSE << [type |-> "status_change", application |-> ref,
                previousValue |-> Str(stored.status),
                newValue |-> Str(scraped.status), field |-> "status"] >>
  ELSE << >>

\* detectChanges: the tab check
tabChanges(scraped, stored, ref) ==
  IF scraped.tab # stored.tab
  THEN << [type |-> "tab_change", application |-> ref,
           previousValue |-> Str(stored.tab),
           newValue |-> Str(scraped.tab), field |-> "tab"] >>
  ELSE << >>

\* mutant of amountChanges: the amount is tested for truthiness, as status
\* and notes are, instead of being compared with null
amountChangesTruthy(scraped, stored, ref) ==
  IF Truthy(scraped.approvedAmount) /\ scraped.approvedAmount # stored.approvedAmount
  THEN << [type |-> "amount_change", application |-> ref,
           previousValue |-> stored.approvedAmount,
           newValue |-> scraped.approvedAmount, field |-> "approvedAmount"] >>
  ELSE << >>

\* mutant of amountChanges: the null check is missing
amountChangesNoNullCheck(scraped, stored, ref) ==
  IF scraped.approvedAmount # stored.approvedAmount
  THEN << [type |-> "amount_change", application |-> ref,
           previousValue |-> stored.approvedAmount,
           newValue |-> scraped.approvedAmount, field |-> "approvedAmount"] >>
  ELSE << >>

\* detectChanges: the approved amount check
amountChanges(scraped, stored, ref) ==
  IF scraped.approvedAmount # Null /\ scraped.approvedAmount # stored.approvedAmount
  THEN << [type |-> "amount_change", application |-> ref,
           previousValue |-> stored.approvedAmount,
           newValue |-> scraped.approvedAmount, field |-> "approvedAmount"] >>
  ELSE << >>

\* detectChanges: the notes check
notesChanges(scraped, stored, ref) ==
  IF scraped.notes # EMPTY /\ scraped.notes # stored.notes
  THEN << [type |-> "notes_change", application |-> ref,
           previousValue |-> Str(stored.notes),
           newValue |-> Str(scraped.notes), field |-> "notes"] >>
  ELSE << >>

\* detectChanges: the loss reason check
lossReasonChanges(scraped, stored, ref) ==
  IF Truthy(scraped.lossReason) /\ scraped.lossReason # stored.lossReason
  THEN << [type |-> "closed", application |-> ref,
           previousValue |-> stored.lossReason,
           newValue |-> scraped.lossReason, field |-> "lossReason"] >>
  ELSE << >>

\* mutant of detectChanges: the checks are chained with else, so only the
\* first change found is returned
detectChangesFirstOnly(scraped, stored, ref) ==
  LET all == statusChanges(scraped, stored, ref) \o tabChanges(scraped, stored, ref)
               \o amountChanges(scraped, stored, ref) \o notesChanges(scraped, stored, ref)
               \o lossReasonChanges(scraped, stored, ref)
  IN IF Len(all) > 1 THEN << all[1] >> ELSE all

\* mutant of detectChanges: the tab check runs before the status check
detectChangesTabFirst(scraped, stored, ref) ==
  tabChanges(scraped, stored, ref) \o statusChanges(scraped, stored, ref)
    \o amountChanges(scraped, stored, ref) \o notesChanges(scraped, stored, ref)
    \o lossReasonChanges(scraped, stored, ref)

\* mutant of detectChanges: the requested amount is compared as well
detectChangesWithRequested(scraped, stored, ref) ==
  statusChanges(scraped, stored, ref) \o tabChanges(scraped, stored, ref)
    \o amountChanges(scraped, stored, ref)
    \o (IF scraped.requestedAmount # Null
           /\ scraped.requestedAmount # stored.requestedAmount
        THEN << [type |-> "amount_change", application |-> ref,
                 previousValue |-> stored.requestedAmount,
                 newValue |-> scraped.requestedAmount, field |-> "requestedAmount"] >>
        ELSE << >>)
    \o notesChanges(scraped, stored, ref) \o lossReasonChanges(scraped, stored, ref)

detectChanges(scraped, stored, ref) ==
  statusChanges(scraped, stored, ref) \o tabChanges(scraped, stored, ref)
    \o amountChanges(scraped, stored, ref) \o notesChanges(scraped, stored, ref)
    \o lossReasonChanges(scraped, stored, ref)

\* storedMap.has(id): some stored application carries the id
storedMapHas(stored, id) == \E i \in 1..Len(stored) : stored[i].applicationId = id

\* storedMap.get(id): Map.set overwrites, so the last stored application with the id
storedMapGet(stored, id) ==
  LET last == CHOOSE i \in 1..Len(stored) :
                /\ stored[i].applicationId = id
                /\ \A j \in (i + 1)..Len(stored) : stored[j].applicationId # id
  IN stored[last]

EmptyDiff ==
  [changes |-> << >>, newApplications |-> << >>,
   updatedApplications |-> << >>, unchangedCount |-> 0]

\* the state of computeDiff's loop after the first n scraped applications
RECURSIVE computeDiffLoop(_, _, _)
computeDiffLoop(scraped, stored, n) ==
  IF n = 0 THEN EmptyDiff
  ELSE LET acc == computeDiffLoop(scraped, stored, n - 1)
           scrapedApp == scraped[n]
       IN IF ~storedMapHas(stored, scrapedApp.applicationId)
          THEN [acc EXCEPT
                  !.newApplications = Append(@, n),
                  !.changes = Append(@, [type |-> "new_application", application |-> n,
                                         previousValue |-> Undefined,
                                         newValue |-> Undefined, field |-> ""])]
          ELSE LET appChanges ==
                     detectChanges(scrapedApp,
                                   storedMapGet(stored, scrapedApp.applicationId), n)
               IN IF Len(appChanges) > 0
                  THEN [acc EXCEPT !.updatedApplications = Append(@, n),
                                   !.changes = @ \o appChanges]
                  ELSE [acc EXCEPT !.unchangedCount = @ + 1]

\* mutant of computeDiff: a new application gets its event but is not pushed
\* to newApplications
computeDiffNewNotListed(scraped, stored) ==
  [computeDiffLoop(scraped, stored, Len(scraped)) EXCEPT !.newApplications = << >>]

\* mutant of computeDiff: the else of the length test is lost, so every
\* application with a stored one is counted unchanged
computeDiffElseLost(scraped, stored) ==
  [computeDiffLoop(scraped, stored, Len(scraped)) EXCEPT
     !.unchangedCount =
        Cardinality({ i \in 1..Len(scraped) : storedMapHas(stored, scraped[i].applicationId) })]

\* mutant of computeDiff: unchangedCount is taken from the stored side, as the
\* stored applications that are not updated
computeDiffUnchangedByStored(scraped, stored) ==
  LET result == computeDiffLoop(scraped, stored, Len(scraped))
  IN [result EXCEPT !.unchangedCount =
        IF Len(stored) >= Len(result.updatedApplications)
        THEN Len(stored) - Len(result.updatedApplications) ELSE 0]

computeDiff(scraped, stored) == computeDiffLoop(scraped, stored, Len(scraped))

\* Date.prototype.toISOString of the scrape time (the clock is the cycle number)
toISOString(date) == NumberToText(date)

\* mutant of toStoredApplications: approvedAmount is copied from the
\* requested amount
toStoredApplicationsRequested(scraped, scrapedAt) ==
  [i \in 1..Len(scraped) |->
     [applicationId |-> scraped[i].applicationId,
      tab |-> scraped[i].tab,
      status |-> scraped[i].status,
      requestedAmount |-> scraped[i].requestedAmount,
      approvedAmount |-> scraped[i].requestedAmount,
      notes |-> scraped[i].notes,
      lossReason |-> scraped[i].lossReason,
      lastScrapedAt |-> toISOString(scrapedAt)]]

toStoredApplications(scraped, scrapedAt) ==
  [i \in 1..Len(scraped) |->
     [applicationId |-> scraped[i].applicationId,
      tab |-> scraped[i].tab,
      status |-> scraped[i].status,
      requestedAmount |-> scraped[i].requestedAmount,
      approvedAmount |-> scraped[i].approvedAmount,
      notes |-> scraped[i].notes,
      lossReason |-> scraped[i].lossReason,
      lastScrapedAt |-> toISOString(scrapedAt)]]

(***************************************************************************)
(* Google Sheets storage (storage/sheets.ts).  The Applications sheet is   *)
(* the sequence of its data rows (sheet row r is store[r - 1]); a row is   *)
(* the 14 cell texts of columns A..N as values.get returns them.           *)
(***************************************************************************)
\* the text of a cell written RAW with value v
CellText(v) ==
  CASE v.kind = "number" -> NumberToText(v.num)
    [] v.kind = "string" -> v.str
    [] OTHER -> EMPTY

\* columns: applicationId, tab, firstName, lastName, email, status,
\* requestedAmount, approvedAmount, notes, lossReason, createdAt,
\* lastUpdatedAt, lastScrapedAt, rawJson.  firstName and lastName are not
\* fields of what toStoredApplications returns (undefined); email, createdAt,
\* lastUpdatedAt and rawJson are not modelled and written empty.
applicationToRow(app) ==
  << app.applicationId, app.tab, CellText(Undefined), CellText(Undefined), EMPTY,
     app.status, CellText(app.requestedAmount), CellText(app.approvedAmount),
     app.notes, CellText(app.lossReason), EMPTY, EMPTY, app.lastScrapedAt, EMPTY >>

\* rows.map(row => ({...})) of getApplications
rowToApplication(row) ==
  [applicationId |-> row[1],
   tab |-> row[2],
   status |-> row[6],
   requestedAmount |-> IF row[7] # EMPTY THEN Num(ParseFloat(row[7])) ELSE Null,
   approvedAmount |-> IF row[8] # EMPTY THEN Num(ParseFloat(row[8])) ELSE Null,
   notes |-> row[9],
   lossReason |-> IF row[10] # EMPTY THEN Str(row[10]) ELSE Null,
   lastScrapedAt |-> row[13]]

getApplications(rows) == [i \in 1..Len(rows) |-> rowToApplication(rows[i])]

\* existingMap.get(id): index into the data rows of the last row with the id, 0 if none
existingMapGet(existing, id) ==
  IF \E i \in 1..Len(existing) : existing[i].applicationId = id
  THEN CHOOSE i \in 1..Len(existing) :
         /\ existing[i].applicationId = id
         /\ \A j \in (i + 1)..Len(existing) : existing[j].applicationId # id
  ELSE 0

\* the updates list of upsertApplications: [row, values] in application order
RECURSIVE upsertUpdates(_, _, _)
upsertUpdates(applications, existing, n) ==
  IF n = 0 THEN << >>
  ELSE LET existingRow == existingMapGet(existing, applications[n].applicationId)
           rest == upsertUpdates(applications, existing, n - 1)
       IN IF existingRow # 0
          THEN Append(rest, [row |-> existingRow, values |-> applicationToRow(applications[n])])
          ELSE rest

\* the appends list of upsertApplications
RECURSIVE upsertAppends(_, _, _)
upsertAppends(applications, existing, n) ==
  IF n = 0 THEN << >>
  ELSE LET existingRow == existingMapGet(existing, applications[n].applicationId)
           rest == upsertAppends(applications, existing, n - 1)
       IN IF existingRow = 0
          THEN Append(rest, applicationToRow(applications[n]))
          ELSE rest

\* spreadsheets.values.batchUpdate: the ranges are written in order
RECURSIVE batchUpdate(_, _, _)
batchUpdate(rows, updates, n) ==
  IF n = 0 THEN rows
  ELSE [batchUpdate(rows, updates, n - 1) EXCEPT ![updates[n].row] = updates[n].values]

\* mutant of appendRows: the new rows are written from the first data row
\* down (values.update at A2) instead of after the last row
appendRowsAtTop(rows, appends) ==
  appends \o SubSeq(rows, Len(appends) + 1, Len(rows))

\* spreadsheets.values.append
appendRows(rows, appends) == rows \o appends

(***************************************************************************)
(* Slack notifications (notifications/slack.ts) and the filter of main.    *)
(***************************************************************************)
\* mutant of shouldSkipNotification: only transitions to Funded are skipped
shouldSkipNotificationTransitionsOnly(change, applications) ==
  \/ /\ change.type = "status_change"
     /\ change.newValue.kind = "string"
     /\ ToLowerCase(change.newValue.str) = kwFunded
  \/ /\ change.type = "tab_change"
     /\ change.newValue = Str(TAB_FUNDED)

\* slack.ts: shouldSkipNotification; applications is the scraped array the
\* change's application reference points into
shouldSkipNotification(change, applications) ==
  LET app == applications[change.application]
  IN \/ app.tab = TAB_FUNDED
     \/ app.status # EMPTY /\ ToLowerCase(app.status) = kwFunded

\* mutant of isFirstRun: the array is compared with a fresh [] by reference,
\* which is never true
isFirstRunByReference(existing) == FALSE

\* index.ts: const isFirstRun = existingApplications.length === 0
isFirstRun(existing) == Len(existing) = 0

\* mutant of isNotifiable: the status is matched without toLowerCase
isNotifiableCaseSensitive(change, firstRun, applications) ==
  LET status == applications[change.application].status
  IN /\ ~firstRun
     /\ ~(Includes(status, kwClosed) \/ Includes(status, kwNA))
     /\ ~(change.type = "new_application" /\ firstRun)

\* index.ts: the predicate of diff.changes.filter(...)
isNotifiable(change, firstRun, applications) ==
  LET status == ToLowerCase(applications[change.application].status)
  IN /\ ~firstRun
     /\ ~(Includes(status, kwClosed) \/ Includes(status, kwNA))
     /\ ~(change.type = "new_application" /\ firstRun)

\* index.ts: const notifiableChanges = diff.changes.filter(...)
notifiableFilter(changes, firstRun, applications) ==
  LET keep(c) == isNotifiable(c, firstRun, applications)
  IN SelectSeq(changes, keep)

\* mutant of notifyChangesFilter: the notifiable changes are sent last first
notifyChangesFilterReversed(changes, applications) ==
  LET keep(c) == ~shouldSkipNotification(c, applications)
      kept == SelectSeq(changes, keep)
  IN [k \in 1..Len(kept) |-> kept[Len(kept) + 1 - k]]

\* slack.ts: the changes notifyChanges passes to notifyChange, in order
notifyChangesFilter(changes, applications) ==
  LET keep(c) == ~shouldSkipNotification(c, applications)
  IN SelectSeq(changes, keep)

\* the elements of s at the positions outside failed, in order
RECURSIVE Except(_, _, _)
Except(s, failed, n) ==
  IF n = 0 THEN << >>
  ELSE IF n \in failed THEN Except(s, failed, n - 1)
       ELSE Append(Except(s, failed, n - 1), s[n])

(***************************************************************************)
(* Scraper (scraper/extractor.ts).  A portal row is what page.evaluate      *)
(* reads from one row of a tab's table: [name, email, tab, status,         *)
(* requestedAmount, approvedAmount, notes, lossReason], name, email and    *)
(* status being '' when their element is missing.                          *)
(***************************************************************************)
\* scrapeTab: the rows of the tab with a name and an email, each keyed by its
\* lower-cased email
scrapeTab(rows, tab) ==
  LET extracted(row) == row.tab = tab /\ row.name # EMPTY /\ row.email # EMPTY
      kept == SelectSeq(rows, extracted)
  IN [i \in 1..Len(kept) |->
        [applicationId |-> ToLowerCase(kept[i].email),
         tab |-> tab,
         status |-> kept[i].status,
         requestedAmount |-> kept[i].requestedAmount,
         approvedAmount |-> kept[i].approvedAmount,
         notes |-> kept[i].notes,
         lossReason |-> kept[i].lossReason]]

\* allApplications after the first n tabs of TABS_TO_SCRAPE
RECURSIVE scrapeTabs(_, _)
scrapeTabs(rows, n) ==
  IF n = 0 THEN << >>
  ELSE scrapeTabs(rows, n - 1) \o scrapeTab(rows, TABS_TO_SCRAPE[n])

scrapeAllTabs(rows) == scrapeTabs(rows, Len(TABS_TO_SCRAPE))

(***************************************************************************)
(* Inputs: what the portal can show and what a scrape can return.          *)
(***************************************************************************)
IdA == <<"a", "@", "x">>
IdB == <<"b", "@", "x">>
NotesOne == <<"n", "1">>
NotesTwo == <<"n", "2">>
LossOne == <<"l", "1">>
LossTwo == <<"l", "2">>
NameOne == <<"N">>

PortalRows(names, emails, tabs, statuses, requested, approved, notes, lossReasons) ==
  [name : names, email : emails, tab : tabs, status : statuses,
   requestedAmount : requested, approvedAmount : approved, notes : notes,
   lossReason : lossReasons]

ScrapedApplications(ids, tabs, statuses, requested, approved, notes, lossReasons) ==
  [applicationId : ids, tab : tabs, status : statuses, requestedAmount : requested,
   approvedAmount : approved, notes : notes, lossReason : lossReasons]

\* position of a tab in TABS_TO_SCRAPE
TabIndex(tab) == CHOOSE i \in 1..Len(TABS_TO_SCRAPE) : TABS_TO_SCRAPE[i] = tab

\* the arrays of up to maxLen rows of domain, the rows of a tab together and
\* the tabs in TABS_TO_SCRAPE order, as scrapeAllTabs visits them
ScrapeResults(domain, maxLen) ==
  UNION { { apps \in [1..n -> domain] :
              \A i \in 1..(n - 1) : TabIndex(apps[i].tab) <= TabIndex(apps[i + 1].tab) }
          : n \in 0..maxLen }

\* the portal rows Spec scrapes
CycleDomain ==
  PortalRows({NameOne}, {IdA, IdB}, {TAB_SUBMITTED, TAB_FUNDED}, {StApproved},
             {Null}, {Null, Num(10)}, {EMPTY}, {Null})

(***************************************************************************)
(* State.                                                                  *)
(***************************************************************************)
VARIABLES
  pc,                    \* position of main
  cycle,                 \* number of the current invocation of main
  store,                 \* data rows of the Applications sheet
  runLog,                \* rows of the Run Log sheet
  browserOpen,           \* browser.ts: browser/context are set
  portalRows,            \* rows of the portal's tables as this cycle's scrape found them
  scrapeResult,          \* index.ts: scrapeResult (applications, scrapedAt)
  existingApplications,  \* index.ts: existingApplications
  diff,                  \* index.ts: diff
  notifiableChanges,     \* index.ts: notifiableChanges
  handed,                \* changes passed to sendToSlack in this cycle, in order
  delivered,             \* changes the webhook accepted in this cycle, in order
  applicationsFound,     \* index.ts: counters logged with the run
  changesDetected,
  newApplicationsCount,
  errorMessage,          \* index.ts: errorMessage of the catch block ("" if none)
  errorNotified,         \* notifyError reached Slack in this cycle
  exitCode,              \* exit code of the process, -1 while running
  slackChannel           \* change notifications the webhook accepted, with their cycle

vars == << pc, cycle, store, runLog, browserOpen, portalRows, scrapeResult, existingApplications,
           diff, notifiableChanges, handed, delivered, applicationsFound,
           changesDetected, newApplicationsCount, errorMessage, errorNotified, exitCode,
           slackChannel >>

NoScrape == [applications |-> << >>, scrapedAt |-> 0]

\* the process at its start: config.ts is evaluated on import, then main runs
StartOfMain ==
  /\ pc = "config"
  /\ browserOpen = FALSE
  /\ portalRows = << >>
  /\ scrapeResult = NoScrape
  /\ existingApplications = << >>
  /\ diff = EmptyDiff
  /\ notifiableChanges = << >>
  /\ handed = << >>
  /\ delivered = << >>
  /\ applicationsFound = 0
  /\ changesDetected = 0
  /\ newApplicationsCount = 0
  /\ errorMessage = ""
  /\ errorNotified = FALSE
  /\ exitCode = -1

Init ==
  /\ cycle = 1
  /\ store = << >>
  /\ runLog = << >>
  /\ slackChannel = {}
  /\ StartOfMain

(***************************************************************************)
(* main (index.ts), one action per awaited step.                           *)
(***************************************************************************)
\* mutant of Throw: the exception is caught around the failing step and
\* main goes on with the upsert
ThrowAndGoOn(message) ==
  /\ pc' = "upsert"
  /\ errorMessage' = message

\* an exception reaches the catch block of main
Throw(message) ==
  /\ pc' = "catch"
  /\ errorMessage' = message

\* config.ts: export const config = loadConfig(); requireEnv throws on a
\* missing variable while index.ts is imported, outside the try of main, and
\* the process ends with the uncaught error
LoadConfig ==
  /\ pc = "config"
  /\ \/ /\ pc' = "launch"
        /\ UNCHANGED exitCode
     \/ /\ pc' = "crashed"
        /\ exitCode' = 1
  /\ UNCHANGED << cycle, slackChannel, portalRows, store, runLog, browserOpen, scrapeResult,
                  existingApplications, diff, notifiableChanges, handed, delivered,
                  applicationsFound, changesDetected, newApplicationsCount, errorMessage,
                  errorNotified >>

\* 1. launchBrowser
LaunchBrowser ==
  /\ pc = "launch"
  /\ \/ /\ browserOpen' = TRUE
        /\ pc' = "login"
        /\ UNCHANGED errorMessage
     \/ /\ Throw("launchBrowser")
        /\ UNCHANGED browserOpen
  /\ UNCHANGED << cycle, slackChannel, portalRows, store, runLog, scrapeResult, existingApplications, diff,
                  notifiableChanges, handed, delivered, applicationsFound,
                  changesDetected, newApplicationsCount, errorNotified, exitCode >>

\* 1. login
Login ==
  /\ pc = "login"
  /\ \/ /\ pc' = "scrape"
        /\ UNCHANGED errorMessage
     \/ Throw("login")
  /\ UNCHANGED << cycle, slackChannel, portalRows, store, runLog, browserOpen, scrapeResult, existingApplications,
                  diff, notifiableChanges, handed, delivered, applicationsFound,
                  changesDetected, newApplicationsCount, errorNotified, exitCode >>

\* 2. scrapeAllTabs; portals is the set of row arrays the portal can show
ScrapeAllTabs(portals) ==
  /\ pc = "scrape"
  /\ \/ \E rows \in portals :
          /\ portalRows' = rows
          /\ scrapeResult' = [applications |-> scrapeAllTabs(rows), scrapedAt |-> cycle]
          /\ applicationsFound' = Len(scrapeAllTabs(rows))
          /\ pc' = "close"
          /\ UNCHANGED errorMessage
     \/ /\ Throw("scrapeAllTabs")
        /\ UNCHANGED << portalRows, scrapeResult, applicationsFound >>
  /\ UNCHANGED << cycle, slackChannel, store, runLog, browserOpen, existingApplications, diff,
                  notifiableChanges, handed, delivered, changesDetected,
                  newApplicationsCount, errorNotified, exitCode >>

\* 3. closeBrowser
CloseBrowser ==
  /\ pc = "close"
  /\ \/ /\ browserOpen' = FALSE
        /\ pc' = "read"
        /\ UNCHANGED errorMessage
     \/ /\ Throw("closeBrowser")
        /\ UNCHANGED browserOpen
  /\ UNCHANGED << cycle, slackChannel, portalRows, store, runLog, scrapeResult, existingApplications, diff,
                  notifiableChanges, handed, delivered, applicationsFound,
                  changesDetected, newApplicationsCount, errorNotified, exitCode >>

\* 4. getApplications, 5. computeDiff, the filter and the counters
ReadAndDiff ==
  /\ pc = "read"
  /\ \/ LET existing == getApplications(store)
            result == computeDiff(scrapeResult.applications, existing)
            notifiable == notifiableFilter(result.changes, isFirstRun(existing),
                                           scrapeResult.applications)
        IN /\ existingApplications' = existing
           /\ diff' = result
           /\ notifiableChanges' = notifiable
           /\ changesDetected' = Len(notifiable)
           /\ newApplicationsCount' = Len(result.newApplications)
           /\ pc' = "notify"
           /\ UNCHANGED errorMessage
     \/ /\ Throw("getApplications")
        /\ UNCHANGED << existingApplications, diff, notifiableChanges, changesDetected,
                        newApplicationsCount >>
  /\ UNCHANGED << cycle, slackChannel, portalRows, store, runLog, browserOpen, scrapeResult, handed, delivered,
                  applicationsFound, errorNotified, exitCode >>

\* what a change notification in the channel says: the application, the kind
\* of change and the values (formatters.ts), and the cycle that posted it
SlackPost(change, applications, postedIn) ==
  [postedIn |-> postedIn,
   applicationId |-> applications[change.application].applicationId,
   type |-> change.type, field |-> change.field,
   previousValue |-> change.previousValue, newValue |-> change.newValue]

\* 6. notifyChanges: every change that passes shouldSkipNotification is passed
\* to sendToSlack; a failed send is caught inside the loop
NotifyChanges ==
  /\ pc = "notify"
  /\ IF Len(notifiableChanges) > 0
     THEN LET toSend == notifyChangesFilter(notifiableChanges, scrapeResult.applications)
          IN \E failed \in SUBSET (1..Len(toSend)) :
               /\ Cardinality(failed) <= MaxSendFailures
               /\ handed' = toSend
               /\ delivered' = Except(toSend, failed, Len(toSend))
               /\ slackChannel' = slackChannel \cup
                    { SlackPost(toSend[k], scrapeResult.applications, cycle) :
                        k \in (1..Len(toSend)) \ failed }
     ELSE UNCHANGED << handed, delivered, slackChannel >>
  /\ pc' = "upsert"
  /\ UNCHANGED << cycle, portalRows, store, runLog, browserOpen, scrapeResult, existingApplications,
                  diff, notifiableChanges, applicationsFound, changesDetected,
                  newApplicationsCount, errorMessage, errorNotified, exitCode >>

\* 7. toStoredApplications and upsertApplications
UpsertApplications ==
  /\ pc = "upsert"
  /\ LET storedApps == toStoredApplications(scrapeResult.applications,
                                            scrapeResult.scrapedAt)
         existing == getApplications(store)
         updates == upsertUpdates(storedApps, existing, Len(storedApps))
         appends == upsertAppends(storedApps, existing, Len(storedApps))
         updated == batchUpdate(store, updates, Len(updates))
     IN \/ /\ store' = appendRows(updated, appends)
           /\ pc' = "log"
           /\ UNCHANGED errorMessage
        \/ /\ Throw("upsertApplications")
           /\ UNCHANGED store
        \/ /\ Len(appends) > 0
           /\ store' = updated
           /\ Throw("upsertApplications")
  /\ UNCHANGED << cycle, slackChannel, portalRows, runLog, browserOpen, scrapeResult, existingApplications, diff,
                  notifiableChanges, handed, delivered, applicationsFound,
                  changesDetected, newApplicationsCount, errorNotified, exitCode >>

RunLogEntry(status, errors) ==
  [status |-> status, applicationsFound |-> applicationsFound,
   changesDetected |-> changesDetected, newApplications |-> newApplicationsCount,
   errors |-> errors]

\* 8. logRun({status: 'Success', ...}) and process.exit(0)
LogSuccess ==
  /\ pc = "log"
  /\ \/ /\ runLog' = Append(runLog, RunLogEntry("Success", ""))
        /\ pc' = "done"
        /\ exitCode' = 0
        /\ UNCHANGED errorMessage
     \/ /\ Throw("logRun")
        /\ UNCHANGED << runLog, exitCode >>
  /\ UNCHANGED << cycle, slackChannel, portalRows, store, browserOpen, scrapeResult, existingApplications, diff,
                  notifiableChanges, handed, delivered, applicationsFound,
                  changesDetected, newApplicationsCount, errorNotified >>

\* mutant of Catch: the catch block ends with process.exit(1)
CatchExitsOne ==
  /\ pc = "catch"
  /\ \E notified \in BOOLEAN : errorNotified' = notified
  /\ \E logged \in BOOLEAN :
       runLog' = IF logged
                 THEN Append(runLog,
                             [status |-> "Failed", applicationsFound |-> applicationsFound,
                              changesDetected |-> changesDetected,
                              newApplications |-> newApplicationsCount,
                              errors |-> errorMessage])
                 ELSE runLog
  /\ \E closed \in BOOLEAN : browserOpen' = (browserOpen /\ ~closed)
  /\ pc' = "done"
  /\ exitCode' = 1
  /\ UNCHANGED << cycle, slackChannel, portalRows, store, scrapeResult, existingApplications,
                  diff, notifiableChanges, handed, delivered, applicationsFound,
                  changesDetected, newApplicationsCount, errorMessage >>

\* the catch block: notifyError, logRun({status: 'Failed', ...}), closeBrowser,
\* each in its own try, then process.exit(0)
Catch ==
  /\ pc = "catch"
  /\ \E notified \in BOOLEAN : errorNotified' = notified
  /\ \E logged \in BOOLEAN :
       runLog' = IF logged THEN Append(runLog, RunLogEntry("Failed", errorMessage))
                 ELSE runLog
  /\ \E closed \in BOOLEAN : browserOpen' = (browserOpen /\ ~closed)
  /\ pc' = "done"
  /\ exitCode' = 0
  /\ UNCHANGED << cycle, slackChannel, portalRows, store, scrapeResult, existingApplications, diff,
                  notifiableChanges, handed, delivered, applicationsFound,
                  changesDetected, newApplicationsCount, errorMessage >>

\* the cron schedule starts main again in a fresh process
NextCycle ==
  /\ pc \in {"done", "crashed"}
  /\ cycle < MaxCycles
  /\ cycle' = cycle + 1
  /\ pc' = "config"
  /\ browserOpen' = FALSE
  /\ portalRows' = << >>
  /\ scrapeResult' = NoScrape
  /\ existingApplications' = << >>
  /\ diff' = EmptyDiff
  /\ notifiableChanges' = << >>
  /\ handed' = << >>
  /\ delivered' = << >>
  /\ applicationsFound' = 0
  /\ changesDetected' = 0
  /\ newApplicationsCount' = 0
  /\ errorMessage' = ""
  /\ errorNotified' = FALSE
  /\ exitCode' = -1
  /\ UNCHANGED << store, runLog, slackChannel >>

Next ==
  \/ LoadConfig
  \/ LaunchBrowser
  \/ Login
  \/ ScrapeAllTabs(ScrapeResults(CycleDomain, MaxObserved))
  \/ CloseBrowser
  \/ ReadAndDiff
  \/ NotifyChanges
  \/ UpsertApplications
  \/ LogSuccess
  \/ Catch
  \/ NextCycle

Spec == Init /\ [][Next]_vars

(***************************************************************************)
(* PairSpec: one stored application and one scraped application with the   *)
(* same id, over a wider range of field values.  It starts where main has  *)
(* scraped in its second cycle, the sheet holding what the first cycle     *)
(* wrote, and runs the diff, the filter and the notifications.             *)
(***************************************************************************)
PairStoredDomain ==
  ScrapedApplications({IdA}, {TAB_SUBMITTED, TAB_FUNDED},
                      {EMPTY, StApproved, StClosedUpper, StContact, StFunded},
                      {Null}, {Null, Num(0), Num(10)}, {EMPTY, NotesOne}, {Null, Str(LossOne)})

PairScrapedDomain ==
  PortalRows({NameOne}, {IdA}, {TAB_SUBMITTED, TAB_ACCEPTED, TAB_FUNDED},
             {EMPTY, StApproved, StClosed, StClosedUpper, StNA, StContact, StFunded},
             {Null}, {Null, Num(0), Num(10)}, {EMPTY, NotesOne, NotesTwo},
             {Null, Str(LossOne), Str(LossTwo)})

InitPair ==
  /\ cycle = 2
  /\ \E before \in PairStoredDomain :
       store = << applicationToRow(toStoredApplications(<< before >>, 1)[1]) >>
  /\ runLog = << [status |-> "Success", applicationsFound |-> 1, changesDetected |-> 0,
                  newApplications |-> 1, errors |-> ""] >>
  /\ \E now \in PairScrapedDomain :
       /\ portalRows = << now >>
       /\ scrapeResult = [applications |-> scrapeAllTabs(<< now >>), scrapedAt |-> 2]
  /\ applicationsFound = 1
  /\ pc = "read"
  /\ browserOpen = FALSE
  /\ existingApplications = << >>
  /\ diff = EmptyDiff
  /\ notifiableChanges = << >>
  /\ handed = << >>
  /\ delivered = << >>
  /\ changesDetected = 0
  /\ newApplicationsCount = 0
  /\ errorMessage = ""
  /\ errorNotified = FALSE
  /\ exitCode = -1
  /\ slackChannel = {}

NextPair ==
  \/ ReadAndDiff
  \/ NotifyChanges

PairSpec == InitPair /\ [][NextPair]_vars

(***************************************************************************)
(* IntakeSpec: one cycle from the scrape on, over portal rows whose name   *)
(* or email element may be missing and whose email may be in upper case,   *)
(* and over a sheet that an earlier cycle wrote and in which the           *)
(* applicationId cell of a row may have been cleared by hand.              *)
(***************************************************************************)
IdAUpper == <<"A", "@", "x">>

IntakeRows ==
  PortalRows({NameOne, EMPTY}, {IdA, IdAUpper, EMPTY}, {TAB_SUBMITTED}, {StApproved},
             {Null}, {Null, Num(10)}, {EMPTY}, {Null})

IntakeStored ==
  ScrapedApplications({IdA, IdB, EMPTY}, {TAB_SUBMITTED}, {StApproved},
                      {Null}, {Null}, {EMPTY}, {Null})

\* the sheets of one or two rows written at time 1
IntakeSheets ==
  LET rowOf(app) == applicationToRow(toStoredApplications(<< app >>, 1)[1])
  IN { << rowOf(first) >> : first \in IntakeStored }
       \cup { << rowOf(first), rowOf(second) >> : first \in IntakeStored, second \in IntakeStored }

InitIntake ==
  /\ cycle = 2
  /\ store \in IntakeSheets
  /\ runLog = << [status |-> "Success", applicationsFound |-> Len(store),
                  changesDetected |-> 0, newApplications |-> Len(store), errors |-> ""] >>
  /\ pc = "scrape"
  /\ browserOpen = TRUE
  /\ portalRows = << >>
  /\ scrapeResult = NoScrape
  /\ existingApplications = << >>
  /\ diff = EmptyDiff
  /\ notifiableChanges = << >>
  /\ handed = << >>
  /\ delivered = << >>
  /\ applicationsFound = 0
  /\ changesDetected = 0
  /\ newApplicationsCount = 0
  /\ errorMessage = ""
  /\ errorNotified = FALSE
  /\ exitCode = -1
  /\ slackChannel = {}

NextIntake ==
  \/ ScrapeAllTabs(ScrapeResults(IntakeRows, MaxObserved))
  \/ CloseBrowser
  \/ ReadAndDiff
  \/ NotifyChanges
  \/ UpsertApplications
  \/ LogSuccess
  \/ Catch

IntakeSpec == InitIntake /\ [][NextIntake]_vars

(***************************************************************************)
(* WatchSpec: the diff and the notifications of one cycle for one stored   *)
(* row and one portal row of the same email, which may differ in name, in  *)
(* the case of the email and in the requested amount as well as in the     *)
(* compared fields.                                                        *)
(***************************************************************************)
NameTwo == <<"M">>

WatchStoredDomain ==
  ScrapedApplications({IdA}, {TAB_SUBMITTED}, {StApproved, StContact},
                      {Null, Num(10)}, {Null, Num(10)}, {EMPTY, NotesOne}, {Null})

WatchScrapedDomain ==
  PortalRows({NameOne, NameTwo}, {IdA, IdAUpper}, {TAB_SUBMITTED, TAB_ACCEPTED},
             {StApproved, StContact}, {Null, Num(10), Num(20)}, {Null, Num(10)},
             {EMPTY, NotesOne}, {Null})

InitWatch ==
  /\ cycle = 2
  /\ \E before \in WatchStoredDomain :
       store = << applicationToRow(toStoredApplications(<< before >>, 1)[1]) >>
  /\ runLog = << [status |-> "Success", applicationsFound |-> 1, changesDetected |-> 0,
                  newApplications |-> 1, errors |-> ""] >>
  /\ \E now \in WatchScrapedDomain :
       /\ portalRows = << now >>
       /\ scrapeResult = [applications |-> scrapeAllTabs(<< now >>), scrapedAt |-> 2]
  /\ applicationsFound = 1
  /\ pc = "read"
  /\ browserOpen = FALSE
  /\ existingApplications = << >>
  /\ diff = EmptyDiff
  /\ notifiableChanges = << >>
  /\ handed = << >>
  /\ delivered = << >>
  /\ changesDetected = 0
  /\ newApplicationsCount = 0
  /\ errorMessage = ""
  /\ errorNotified = FALSE
  /\ exitCode = -1
  /\ slackChannel = {}

NextWatch ==
  \/ ReadAndDiff
  \/ NotifyChanges

WatchSpec == InitWatch /\ [][NextWatch]_vars

(***************************************************************************)
(* FollowUpSpec: the cycles that follow a baseline cycle which, at time 0, *)
(* stored one application with every optional field present.               *)
(***************************************************************************)
FollowUpStored ==
  [applicationId |-> IdA, tab |-> TAB_SUBMITTED, status |-> StApproved,
   requestedAmount |-> Null, approvedAmount |-> Num(10), notes |-> NotesOne,
   lossReason |-> Str(LossOne)]

FollowUpRows ==
  PortalRows({NameOne}, {IdA}, {TAB_SUBMITTED}, {StApproved}, {Null},
             {Null, Num(10), Num(20)}, {EMPTY, NotesOne}, {Null, Str(LossOne)})

InitFollowUp ==
  /\ cycle = 1
  /\ store = << applicationToRow(toStoredApplications(<< FollowUpStored >>, 0)[1]) >>
  /\ runLog = << [status |-> "Success", applicationsFound |-> 1, changesDetected |-> 0,
                  newApplications |-> 1, errors |-> ""] >>
  /\ slackChannel = {}
  /\ StartOfMain

NextFollowUp ==
  \/ LoadConfig
  \/ LaunchBrowser
  \/ Login
  \/ ScrapeAllTabs(ScrapeResults(FollowUpRows, 1))
  \/ CloseBrowser
  \/ ReadAndDiff
  \/ NotifyChanges
  \/ UpsertApplications
  \/ LogSuccess
  \/ Catch
  \/ NextCycle

FollowUpSpec == InitFollowUp /\ [][NextFollowUp]_vars

(***************************************************************************)
(* LiveSpec: the cron job over a small portal, with the fairness that the  *)
(* awaits of main give: every awaited call returns or throws (Playwright   *)
(* and fetch time out), so a process that can take a step takes one.       *)
(***************************************************************************)
LiveRows ==
  PortalRows({NameOne}, {IdA}, {TAB_SUBMITTED, TAB_FUNDED}, {StApproved},
             {Null}, {Null, Num(10)}, {EMPTY}, {Null})

NextLive ==
  \/ LoadConfig
  \/ LaunchBrowser
  \/ Login
  \/ ScrapeAllTabs(ScrapeResults(LiveRows, MaxObserved))
  \/ CloseBrowser
  \/ ReadAndDiff
  \/ NotifyChanges
  \/ UpsertApplications
  \/ LogSuccess
  \/ Catch
  \/ NextCycle

LiveSpec == Init /\ [][NextLive]_vars /\ WF_vars(NextLive)

(***************************************************************************)
(* Vocabulary of the properties.                                           *)
(***************************************************************************)
Applications == scrapeResult.applications

\* the scraped application at position i has a stored application
Matched(i) == storedMapHas(existingApplications, Applications[i].applicationId)

StoredOf(i) == storedMapGet(existingApplications, Applications[i].applicationId)

MatchedApplications == { i \in 1..Len(Applications) : Matched(i) }

\* the change events of the scraped application at position i
EventsOf(i) ==
  LET of(c) == c.application = i
  IN SelectSeq(diff.changes, of)

\* its change events for one field
FieldEventsOf(i, f) ==
  LET of(c) == c.application = i /\ c.field = f
  IN SelectSeq(diff.changes, of)

FieldValue(app, f) ==
  CASE f = "tab" -> Str(app.tab)
    [] f = "status" -> Str(app.status)
    [] f = "approvedAmount" -> app.approvedAmount
    [] f = "notes" -> Str(app.notes)
    [] f = "lossReason" -> app.lossReason

ComparableFields == {"tab", "status", "approvedAmount", "notes", "lossReason"}

\* the comparable fields in which scraped application i differs from its stored one
DifferingFields(i) ==
  { f \in ComparableFields : FieldValue(Applications[i], f) # FieldValue(StoredOf(i), f) }

\* a value that is neither null nor the empty string
Present(v) == v.kind = "number" \/ (v.kind = "string" /\ v.str # EMPTY)

KindsOf(f) ==
  CASE f = "tab" -> {"tab_change"}
    [] f = "status" -> {"status_change", "closed"}
    [] f = "approvedAmount" -> {"amount_change"}
    [] f = "notes" -> {"notes_change"}
    [] f = "lossReason" -> {"closed"}

SameLetter(x, y) ==
  \/ x = y
  \/ x \in DOMAIN UpperToLower /\ UpperToLower[x] = y
  \/ y \in DOMAIN UpperToLower /\ UpperToLower[y] = x

\* s contains word in some letter case
ContainsIgnoreCase(s, word) ==
  \E offset \in 0..(Len(s) - Len(word)) :
    \A k \in 1..Len(word) : SameLetter(s[offset + k], word[k])

\* the status-level rule of the notification policy: closed or n/a
ClosedStatus(status) ==
  ContainsIgnoreCase(status, kwClosed) \/ ContainsIgnoreCase(status, kwNA)

\* change c is among the changes passed to the Slack sender
Handed(c) == \E j \in 1..Len(handed) : handed[j] = c

\* notifyChanges has run (or was skipped for want of changes) in this cycle
Notified == pc \in {"upsert", "log"}

(***************************************************************************)
(* C1.  Baseline suppression.                                              *)
(***************************************************************************)
\* C1: in a cycle whose stored set is empty no change is notifiable, passed
\* to the Slack sender or delivered, whatever events computeDiff produced.
C1_BaselineSuppression ==
  Len(existingApplications) = 0 =>
    /\ notifiableChanges = << >>
    /\ handed = << >>
    /\ delivered = << >>

\* a baseline cycle past its notification step whose diff holds several events
C1_Witness ==
  /\ Notified
  /\ Len(existingApplications) = 0
  /\ Len(diff.changes) > 1

(***************************************************************************)
(* C2.  Idempotence across polls.                                          *)
(***************************************************************************)
\* what getApplications returns after upsertApplications wrote the scrape
\* `applications` of time `at` into an empty sheet
PersistedFor(applications, at) ==
  LET storedApps == toStoredApplications(applications, at)
  IN getApplications(appendRows(<< >>, upsertAppends(storedApps, << >>, Len(storedApps))))

\* C2: when the stored set is what an earlier cycle persisted for the scrape O
\* and the cycle scrapes the same O, computeDiff returns no change, counts
\* every application unchanged, and nothing is passed to Slack.
C2_Idempotence ==
  ( /\ pc \in {"notify", "upsert", "log"}
    /\ \E at \in 1..(cycle - 1) : existingApplications = PersistedFor(Applications, at) )
  => /\ diff.changes = << >>
     /\ diff.unchangedCount = Len(Applications)
     /\ handed = << >>

(***************************************************************************)
(* C3.  Single-field classification.                                       *)
(***************************************************************************)
SingleFieldEvent(i, f) ==
  /\ Len(EventsOf(i)) = 1
  /\ EventsOf(i)[1].field = f
  /\ EventsOf(i)[1].type \in KindsOf(f)

\* C3 as claimed: a matched application that differs from its stored one in
\* exactly one of tab, status, approved amount, notes has exactly one event,
\* of the kind of that field.
C3_Original ==
  \A i \in MatchedApplications :
    \A f \in {"tab", "status", "approvedAmount", "notes"} :
      DifferingFields(i) = {f} => SingleFieldEvent(i, f)

\* C3 amended: the same, for a differing field whose scraped value is neither
\* null nor empty.
C3_SingleFieldClassification ==
  \A i \in MatchedApplications :
    \A f \in {"tab", "status", "approvedAmount", "notes"} :
      (DifferingFields(i) = {f} /\ Present(FieldValue(Applications[i], f)))
        => SingleFieldEvent(i, f)

\* a matched application whose only difference is an approved amount of 0
C3_Witness ==
  /\ Notified
  /\ 1 \in MatchedApplications
  /\ DifferingFields(1) = {"approvedAmount"}
  /\ Applications[1].approvedAmount = Num(0)
  /\ Len(diff.changes) = 1

(***************************************************************************)
(* C4.  Independent field checks.                                          *)
(***************************************************************************)
TabAndAmountEvents(i) ==
  /\ Len(EventsOf(i)) = 2
  /\ Len(FieldEventsOf(i, "tab")) = 1
  /\ FieldEventsOf(i, "tab")[1].type = "tab_change"
  /\ Len(FieldEventsOf(i, "approvedAmount")) = 1
  /\ FieldEventsOf(i, "approvedAmount")[1].type = "amount_change"

AllHanded(i) == \A k \in 1..Len(EventsOf(i)) : Handed(EventsOf(i)[k])

\* C4 as claimed: a matched application that differs in tab and approved
\* amount only has exactly a tab_change and an amount_change, both passed to
\* Slack when the run is no baseline run, the status is not closed and the tab
\* is not Funded.
C4_Original ==
  \A i \in MatchedApplications :
    DifferingFields(i) = {"tab", "approvedAmount"} =>
      /\ TabAndAmountEvents(i)
      /\ ( /\ Notified
           /\ ~ClosedStatus(Applications[i].status)
           /\ Applications[i].tab # TAB_FUNDED )
         => AllHanded(i)

\* C4 amended: the same when the scraped approved amount is not null and the
\* status is not "funded" in any letter case.
C4_IndependentFieldChecks ==
  \A i \in MatchedApplications :
    ( /\ DifferingFields(i) = {"tab", "approvedAmount"}
      /\ Applications[i].approvedAmount # Null )
    => /\ TabAndAmountEvents(i)
       /\ ( /\ Notified
            /\ ~ClosedStatus(Applications[i].status)
            /\ Applications[i].tab # TAB_FUNDED
            /\ ~(Len(Applications[i].status) = Len(kwFunded)
                 /\ ContainsIgnoreCase(Applications[i].status, kwFunded)) )
          => AllHanded(i)

\* Submitted -> Accepted & Approved with a first approved amount, both handed
C4_Witness ==
  /\ Notified
  /\ 1 \in MatchedApplications
  /\ DifferingFields(1) = {"tab", "approvedAmount"}
  /\ StoredOf(1).tab = TAB_SUBMITTED
  /\ Applications[1].tab = TAB_ACCEPTED
  /\ StoredOf(1).approvedAmount = Null
  /\ Applications[1].approvedAmount = Num(10)
  /\ Len(handed) = 2

(***************************************************************************)
(* C5.  One event per status transition.                                   *)
(***************************************************************************)
\* C5 as claimed: a matched application never has two events for the status
\* field, and has one whenever its scraped status differs from the stored one.
C5_Original ==
  \A i \in MatchedApplications :
    /\ Len(FieldEventsOf(i, "status")) <= 1
    /\ Applications[i].status # StoredOf(i).status => Len(FieldEventsOf(i, "status")) = 1

\* C5 amended: never two events for the status field, and exactly one whenever
\* the scraped status is not empty and differs from the stored one.
C5_OneStatusEvent ==
  \A i \in MatchedApplications :
    /\ Len(FieldEventsOf(i, "status")) <= 1
    /\ (Applications[i].status # EMPTY /\ Applications[i].status # StoredOf(i).status)
         => Len(FieldEventsOf(i, "status")) = 1

\* a transition into a closed status with a loss reason
C5_Witness ==
  /\ Notified
  /\ 1 \in MatchedApplications
  /\ StoredOf(1).status = StApproved
  /\ Applications[1].status = StClosed
  /\ Truthy(Applications[1].lossReason)
  /\ Len(FieldEventsOf(1, "status")) = 1

(***************************************************************************)
(* C6.  Closed reclassification.                                           *)
(***************************************************************************)
\* the new status contains a term of the closed vocabulary of the diff engine
InClosedVocabulary(status) ==
  \/ ContainsIgnoreCase(status, kwClosed)
  \/ ContainsIgnoreCase(status, kwNA)
  \/ ContainsIgnoreCase(status, kwContact)

StatusTransition(i) ==
  /\ Applications[i].status # EMPTY
  /\ Applications[i].status # StoredOf(i).status

StatusEventTypes(i) ==
  [k \in 1..Len(FieldEventsOf(i, "status")) |-> FieldEventsOf(i, "status")[k].type]

\* C6 as claimed: every status transition into the closed vocabulary is
\* emitted as a closed event instead of a status_change.
C6_Original ==
  \A i \in MatchedApplications :
    (StatusTransition(i) /\ InClosedVocabulary(Applications[i].status))
      => StatusEventTypes(i) = << "closed" >>

\* C6 amended: a status transition into the closed vocabulary (closed, n/a,
\* contact beautifi) is emitted as a closed event instead of a status_change
\* when the scraped loss reason is not empty, and as a status_change otherwise.
C6_ClosedReclassification ==
  \A i \in MatchedApplications :
    (StatusTransition(i) /\ InClosedVocabulary(Applications[i].status))
      => StatusEventTypes(i) =
           IF Truthy(Applications[i].lossReason) THEN << "closed" >>
           ELSE << "status_change" >>

\* Approved -> CLOSED with a loss reason, emitted as closed
C6_Witness ==
  /\ Notified
  /\ 1 \in MatchedApplications
  /\ StoredOf(1).status = StApproved
  /\ Applications[1].status = StClosedUpper
  /\ Truthy(Applications[1].lossReason)
  /\ StatusEventTypes(1) = << "closed" >>

(***************************************************************************)
(* C7.  Closed events are suppressed.                                      *)
(***************************************************************************)
\* C7: no event of kind closed is passed to the Slack sender.
C7_ClosedSuppressed ==
  \A j \in 1..Len(handed) : handed[j].type # "closed"

(***************************************************************************)
(* C8.  Closed-status rule.                                                *)
(***************************************************************************)
\* C8: no change passed to Slack has an application whose current status
\* contains closed or n/a in any letter case.
C8_ClosedStatusRule ==
  \A j \in 1..Len(handed) : ~ClosedStatus(Applications[handed[j].application].status)

\* the transition that closes an application produced events, none was handed
C8_Witness ==
  /\ Notified
  /\ 1 \in MatchedApplications
  /\ StoredOf(1).status = StApproved
  /\ Applications[1].status = StClosedUpper
  /\ Len(FieldEventsOf(1, "status")) = 1
  /\ handed = << >>

(***************************************************************************)
(* C9.  Excluded-stage rule.                                               *)
(***************************************************************************)
\* C9: no change of any kind passed to Slack has an application in the Funded
\* tab, whatever its status.
C9_ExcludedStage ==
  \A j \in 1..Len(handed) : Applications[handed[j].application].tab # TAB_FUNDED

\* a new application in the Funded tab, status not closed, passed the filter
\* of main in a run that is no baseline run, and notifyChanges has run
C9_Witness ==
  /\ Notified
  /\ \E k \in 1..Len(notifiableChanges) :
       /\ notifiableChanges[k].type = "new_application"
       /\ Applications[notifiableChanges[k].application].tab = TAB_FUNDED
       /\ ~ClosedStatus(Applications[notifiableChanges[k].application].status)

(***************************************************************************)
(* C10.  Null is unknown.                                                  *)
(***************************************************************************)
\* C10: a scraped null or empty approved amount, notes or loss reason whose
\* stored value is not null yields no change event for that field.
C10_NullIsUnknown ==
  \A i \in MatchedApplications :
    \A f \in {"approvedAmount", "notes", "lossReason"} :
      (~Present(FieldValue(Applications[i], f)) /\ Present(FieldValue(StoredOf(i), f)))
        => FieldEventsOf(i, f) = << >>

\* all three optional fields went from a value to null while the tab changed
C10_Witness ==
  /\ Notified
  /\ 1 \in MatchedApplications
  /\ \A f \in {"approvedAmount", "notes", "lossReason"} :
       ~Present(FieldValue(Applications[1], f)) /\ Present(FieldValue(StoredOf(1), f))
  /\ Len(diff.changes) > 0

(***************************************************************************)
(* Vocabulary of the reconciler properties.                                *)
(***************************************************************************)
\* getApplications and computeDiff have run in this cycle
Diffed == pc \in {"notify", "upsert", "log"}

\* the positions of the scraped array that satisfy P, in ascending order
PositionsWhere(P(_)) ==
  SelectSeq([k \in 1..Len(Applications) |-> k], P)

\* how many times x occurs in the sequence s
Occurrences(s, x) == Cardinality({ k \in 1..Len(s) : s[k] = x })

IsNewPosition(i) == ~Matched(i)

IsUpdatedPosition(i) == Matched(i) /\ EventsOf(i) # << >>

IsUnchangedPosition(i) == Matched(i) /\ EventsOf(i) = << >>

(***************************************************************************)
(* C11.  New record.                                                       *)
(***************************************************************************)
\* C11: a scraped application whose applicationId no stored application
\* carries has exactly one event, a new_application event without field and
\* values, is listed once in newApplications and is not listed as updated.
C11_NewRecord ==
  Diffed =>
    \A i \in 1..Len(Applications) :
      IsNewPosition(i) =>
        /\ EventsOf(i) = << [type |-> "new_application", application |-> i,
                             previousValue |-> Undefined, newValue |-> Undefined,
                             field |-> ""] >>
        /\ Occurrences(diff.newApplications, i) = 1
        /\ Occurrences(diff.updatedApplications, i) = 0

\* a cycle over a non-empty sheet that scrapes one application the sheet does
\* not hold and one it holds with a difference
C11_Witness ==
  /\ Diffed
  /\ Len(existingApplications) > 0
  /\ \E i \in 1..Len(Applications) : IsNewPosition(i)
  /\ \E i \in 1..Len(Applications) : IsUpdatedPosition(i)

(***************************************************************************)
(* C12.  Reconciler partition.                                             *)
(***************************************************************************)
\* C12: newApplications lists exactly the scraped applications without a
\* stored one, updatedApplications exactly those with a stored one and at
\* least one event, unchangedCount counts exactly those with a stored one and
\* no event, and the three sizes add up to the number scraped.
C12_ReconcilerPartition ==
  Diffed =>
    /\ diff.newApplications = PositionsWhere(IsNewPosition)
    /\ diff.updatedApplications = PositionsWhere(IsUpdatedPosition)
    /\ diff.unchangedCount = Len(PositionsWhere(IsUnchangedPosition))
    /\ Len(diff.newApplications) + Len(diff.updatedApplications) + diff.unchangedCount
         = Len(Applications)

\* one updated and one unchanged application in the same scrape
C12_Witness ==
  /\ Diffed
  /\ Len(diff.updatedApplications) = 1
  /\ diff.unchangedCount = 1
  /\ Len(Applications) = 2

(***************************************************************************)
(* C13.  No removal event.                                                 *)
(***************************************************************************)
\* the stored applications whose applicationId was not scraped in this cycle
AbsentStored ==
  { j \in 1..Len(existingApplications) :
      \A i \in 1..Len(Applications) :
        Applications[i].applicationId # existingApplications[j].applicationId }

\* the stored applications without those of AbsentStored
ObservedStored ==
  LET observed(app) == \E i \in 1..Len(Applications) :
                         Applications[i].applicationId = app.applicationId
  IN SelectSeq(existingApplications, observed)

\* C13: the stored applications that were not scraped leave no trace in the
\* diff: every event and every listed application is a scraped one, the three
\* groups hold no more than the scraped applications, and the diff is the one
\* computed without the stored applications that were not scraped.
C13_NoRemovalEvent ==
  Diffed =>
    /\ \A k \in 1..Len(diff.changes) : diff.changes[k].application \in 1..Len(Applications)
    /\ \A k \in 1..Len(diff.newApplications) :
         diff.newApplications[k] \in 1..Len(Applications)
    /\ \A k \in 1..Len(diff.updatedApplications) :
         diff.updatedApplications[k] \in 1..Len(Applications)
    /\ Len(diff.newApplications) + Len(diff.updatedApplications) + diff.unchangedCount
         <= Len(Applications)
    /\ diff = computeDiff(Applications, ObservedStored)

\* a stored application is missing from a scrape that produced events
C13_Witness ==
  /\ Diffed
  /\ AbsentStored # {}
  /\ Len(Applications) > 0
  /\ Len(diff.changes) > 0

(***************************************************************************)
(* C14.  Field-check order.                                                *)
(***************************************************************************)
\* position of field f in the order fields
FieldRank(fields, f) == CHOOSE r \in 1..Len(fields) : fields[r] = f

\* the events of every matched application follow the order fields
EventsOrderedBy(fields) ==
  \A i \in MatchedApplications :
    \A k \in 1..Len(EventsOf(i)) :
      \A l \in (k + 1)..Len(EventsOf(i)) :
        FieldRank(fields, EventsOf(i)[k].field) < FieldRank(fields, EventsOf(i)[l].field)

\* C14 as claimed: the events of a matched application appear in the order
\* tab, status, approved amount, notes, loss reason.
C14_Original ==
  EventsOrderedBy(<< "tab", "status", "approvedAmount", "notes", "lossReason" >>)

\* C14 amended: the events of a matched application appear in the order
\* status, tab, approved amount, notes, loss reason.
C14_FieldCheckOrder ==
  EventsOrderedBy(<< "status", "tab", "approvedAmount", "notes", "lossReason" >>)

\* a matched application that differs in all five fields and has five events
C14_Witness ==
  /\ Notified
  /\ 1 \in MatchedApplications
  /\ DifferingFields(1) = ComparableFields
  /\ Len(EventsOf(1)) = 5

(***************************************************************************)
(* C15.  Order preservation.                                               *)
(***************************************************************************)
\* the position of change c in the change list of the diff
PositionInChanges(c) == CHOOSE k \in 1..Len(diff.changes) : diff.changes[k] = c

\* change c is delivery-eligible: the run is no baseline run, the status of
\* its application is neither closed, n/a nor funded, its tab is not Funded
Eligible(c) ==
  LET app == Applications[c.application]
  IN /\ Len(existingApplications) > 0
     /\ ~ClosedStatus(app.status)
     /\ ~(Len(app.status) = Len(kwFunded) /\ ContainsIgnoreCase(app.status, kwFunded))
     /\ app.tab # TAB_FUNDED

\* C15: the change list holds the events of the scraped applications in the
\* order the applications were scraped; the changes passed to the Slack sender
\* are changes of the list, in the order of the list, none twice; once
\* notifyChanges has run each eligible change was passed and no other.
C15_OrderPreservation ==
  Diffed =>
    /\ \A k \in 1..Len(diff.changes) :
         \A l \in (k + 1)..Len(diff.changes) :
           diff.changes[k].application <= diff.changes[l].application
    /\ \A j \in 1..Len(handed) : \E k \in 1..Len(diff.changes) : diff.changes[k] = handed[j]
    /\ \A j \in 1..Len(handed) :
         \A m \in (j + 1)..Len(handed) :
           PositionInChanges(handed[j]) < PositionInChanges(handed[m])
    /\ Notified =>
         \A k \in 1..Len(diff.changes) :
           Occurrences(handed, diff.changes[k]) = IF Eligible(diff.changes[k]) THEN 1 ELSE 0

\* the two changes of one application were passed to Slack, the change of
\* the application scraped after it was not
C15_Witness ==
  /\ Notified
  /\ Len(handed) = 2
  /\ Len(diff.changes) = 3
  /\ handed[1] = diff.changes[1]
  /\ handed[2] = diff.changes[2]
  /\ diff.changes[3].application = 2

(***************************************************************************)
(* C16.  Snapshot projection.                                              *)
(***************************************************************************)
\* index.ts: const storedApps = toStoredApplications(scrapeResult.applications,
\* scrapeResult.scrapedAt), as main computes it in step 7
Projected == toStoredApplications(Applications, scrapeResult.scrapedAt)

\* C16: the stored applications main projects from the scrape are as many as
\* the scraped ones and in their order, each with the applicationId, tab,
\* status, requested and approved amount, notes and loss reason of the scraped
\* application at its position and with the time of the scrape of this cycle
\* as lastScrapedAt; after the upsert of a baseline run the sheet reads back
\* as exactly this sequence.
C16_SnapshotProjection ==
  pc \in {"upsert", "log"} =>
    /\ Len(Projected) = Len(Applications)
    /\ \A i \in 1..Len(Applications) :
         /\ Projected[i].applicationId = Applications[i].applicationId
         /\ Projected[i].tab = Applications[i].tab
         /\ Projected[i].status = Applications[i].status
         /\ Projected[i].requestedAmount = Applications[i].requestedAmount
         /\ Projected[i].approvedAmount = Applications[i].approvedAmount
         /\ Projected[i].notes = Applications[i].notes
         /\ Projected[i].lossReason = Applications[i].lossReason
         /\ Projected[i].lastScrapedAt = NumberToText(cycle)
    /\ (pc = "log" /\ Len(existingApplications) = 0) => getApplications(store) = Projected

\* a baseline run has written two scraped applications, one with an amount
C16_Witness ==
  /\ pc = "log"
  /\ Len(existingApplications) = 0
  /\ Len(Applications) = 2
  /\ Applications[1].approvedAmount = Num(10)
  /\ Applications[2].approvedAmount = Null
  /\ Len(store) = 2

(***************************************************************************)
(* C17.  Upsert-only persistence.                                          *)
(***************************************************************************)
\* the applicationIds held by the rows of a sheet
KeysOfRows(rows) == { rows[r][1] : r \in 1..Len(rows) }

\* the applicationIds scraped in this cycle
ObservedKeys == { Applications[i].applicationId : i \in 1..Len(Applications) }

\* one step keeps every row of the sheet in its place, keeps every stored
\* applicationId, and leaves the rows of applications not scraped as they are
UpsertOnlyStep ==
  /\ Len(store) <= Len(store')
  /\ KeysOfRows(store) \subseteq KeysOfRows(store')
  /\ \A r \in 1..Len(store) :
       /\ store'[r][1] = store[r][1]
       /\ store[r][1] \notin ObservedKeys => store'[r] = store[r]

\* C17: no step of a cycle deletes from the sheet: the stored applicationIds
\* after the step include those before it, and the row of a stored application
\* that was not scraped in the cycle is unchanged.
C17_UpsertOnly == [][UpsertOnlyStep]_vars

\* the second cycle has upserted: a row written by the first cycle, of an
\* application not scraped now, stands next to a row written now
C17_Witness ==
  /\ pc = "log"
  /\ cycle = 2
  /\ \E r \in 1..Len(store) :
       /\ store[r][1] \notin ObservedKeys
       /\ store[r][13] = NumberToText(1)
  /\ \E r \in 1..Len(store) : store[r][13] = NumberToText(2)

(***************************************************************************)
(* C18.  Store key uniqueness.                                             *)
(***************************************************************************)
\* C18: no two rows of the Applications sheet hold the same applicationId.
C18_StoreKeyUniqueness ==
  \A r \in 1..Len(store) :
    \A q \in (r + 1)..Len(store) : store[r][1] # store[q][1]

(***************************************************************************)
(* C19.  Reconciler de-duplication.                                        *)
(***************************************************************************)
\* the events of the diff for applicationId id with change type t and field f
EventsOfKey(id, t, f) ==
  { k \in 1..Len(diff.changes) :
      /\ Applications[diff.changes[k].application].applicationId = id
      /\ diff.changes[k].type = t
      /\ diff.changes[k].field = f }

\* C19: the diff of a cycle holds at most one new_application event per
\* applicationId and, per applicationId and field, at most one event.
C19_ReconcilerDeduplication ==
  Diffed =>
    \A id \in ObservedKeys :
      /\ Cardinality(EventsOfKey(id, "new_application", "")) <= 1
      /\ \A f \in ComparableFields :
           Cardinality(UNION { EventsOfKey(id, t, f) : t \in KindsOf(f) }) <= 1

(***************************************************************************)
(* C20.  Missing identity key is rejected.                                 *)
(***************************************************************************)
\* a row of the portal has no email, or a row of the sheet no applicationId
MissingIdentityKey ==
  \/ \E r \in 1..Len(portalRows) : portalRows[r].email = EMPTY
  \/ \E r \in 1..Len(store) : store[r][1] = EMPTY

\* C20: in a cycle that met a portal row without email or a sheet row without
\* applicationId no change is passed to Slack, the upsert does not complete
\* and the cycle does not end without an error.
C20_MissingKeyRejected ==
  MissingIdentityKey =>
    /\ handed = << >>
    /\ pc # "log"
    /\ pc = "done" => errorMessage # ""

(***************************************************************************)
(* C21.  Delivery failure is terminal for the cycle.                       *)
(***************************************************************************)
\* a change passed to the Slack sender in this cycle was not accepted
SendFailed == Len(delivered) < Len(handed)

\* C21: in a cycle in which a send of a change notification failed the upsert
\* does not complete and the cycle ends in the catch block of main, with the
\* error recorded.
C21_DeliveryFailureTerminal ==
  SendFailed =>
    /\ pc # "log"
    /\ pc = "done" => errorMessage # ""

(***************************************************************************)
(* C22.  Abort leaves the baseline intact.                                 *)
(***************************************************************************)
\* launchBrowser, login, scrapeAllTabs or getApplications threw in this cycle
EarlyFailure ==
  errorMessage \in {"launchBrowser", "login", "scrapeAllTabs", "getApplications"}

\* C22: in a cycle in which the browser launch, the login, the scrape or the
\* read of the sheet failed no change is passed to Slack or posted, and no row
\* of the sheet carries the time of this cycle: the sheet is the one the cycle
\* found.
C22_AbortLeavesBaseline ==
  EarlyFailure =>
    /\ handed = << >>
    /\ delivered = << >>
    /\ \A post \in slackChannel : post.postedIn # cycle
    /\ \A r \in 1..Len(store) : store[r][13] # NumberToText(cycle)

\* the read of a non-empty sheet failed after a scrape that differs from it,
\* and the cycle has ended
C22_Witness ==
  /\ pc = "done"
  /\ errorMessage = "getApplications"
  /\ Len(store) > 0
  /\ Len(Applications) > 0
  /\ \E i \in 1..Len(Applications) :
       Applications[i].applicationId \notin KeysOfRows(store)

(***************************************************************************)
(* C23.  Run log per cycle.                                                *)
(***************************************************************************)
\* the process of the cycle has ended
Terminated(at) == at \in {"done", "crashed"}

\* the entry a step appended to the Run Log sheet
AppendedEntry == runLog'[Len(runLog')]

\* a step appends at most one entry, and only as the step that ends the cycle;
\* the step that ends the cycle appends one entry, unless it is the catch
\* block whose logRun failed; the entry is Success without errors when main
\* came through the notifications and the upsert, Failed with the error
\* message otherwise
RunLogStep ==
  /\ Len(runLog') \in {Len(runLog), Len(runLog) + 1}
  /\ SubSeq(runLog', 1, Len(runLog)) = runLog
  /\ Len(runLog') = Len(runLog) + 1 => (~Terminated(pc) /\ Terminated(pc'))
  /\ (~Terminated(pc) /\ Terminated(pc')) =>
       \/ /\ Len(runLog') = Len(runLog) + 1
          /\ IF pc = "log"
             THEN AppendedEntry.status = "Success" /\ AppendedEntry.errors = ""
             ELSE /\ AppendedEntry.status = "Failed"
                  /\ AppendedEntry.errors = errorMessage
                  /\ errorMessage # ""
       \/ /\ pc = "catch"
          /\ runLog' = runLog

\* C23: every cycle that ends has appended exactly one run-log entry, unless
\* the write of the entry itself failed; the entry is Success only after the
\* notifications and the upsert completed, and Failed with the error message
\* otherwise.
C23_RunLogPerCycle == [][RunLogStep]_vars

(***************************************************************************)
(* C24.  Graceful exit.                                                    *)
(***************************************************************************)
\* C24: every invocation of main ends, and ends with exit code 0: from the
\* start of main the process reaches its exit with code 0, and from the start
\* of main on the process has no other exit code.
C24_GracefulExit ==
  /\ (pc = "launch") ~> (pc = "done" /\ exitCode = 0)
  /\ [](pc \notin {"config", "crashed"} => exitCode \in {-1, 0})

\* main has ended through its catch block with the error notification, the
\* failed-run log write and the browser cleanup all failed
C24_Witness ==
  /\ pc = "done"
  /\ exitCode = 0
  /\ errorMessage = "closeBrowser"
  /\ ~errorNotified
  /\ browserOpen
  /\ Len(runLog) = 0


(***************************************************************************)
(* C25.  Baseline signal.                                                  *)
(***************************************************************************)
PriorSuccess == \E e \in 1..Len(runLog) : runLog[e].status = "Success"

\* C25: the stored set read at the start of a cycle is empty exactly when no
\* prior cycle succeeded: after a cycle that completed successfully no later
\* cycle is a baseline run, and a cycle after no successful one is a baseline
\* run.
C25_BaselineSignal ==
  Diffed => (isFirstRun(existingApplications) <=> ~PriorSuccess)


(***************************************************************************)
(* C26.  Watched fields.                                                   *)
(***************************************************************************)
\* the scraped applications that equal their stored application in every
\* compared field
SameInComparedFields == { i \in MatchedApplications : DifferingFields(i) = {} }

\* C26: every event that names a field names status, approvedAmount, notes,
\* lossReason or tab, and a matched application that equals its stored
\* application in these five fields, whatever its requested amount, its name
\* and the case of its email, has no event, is not listed as updated and is
\* counted unchanged.
C26_WatchedFields ==
  Diffed =>
    /\ \A k \in 1..Len(diff.changes) :
         diff.changes[k].field \in ComparableFields \cup {""}
    /\ \A i \in SameInComparedFields :
         /\ EventsOf(i) = << >>
         /\ \A u \in 1..Len(diff.updatedApplications) : diff.updatedApplications[u] # i
    /\ diff.unchangedCount >= Cardinality(SameInComparedFields)

\* a portal row of another name, of the email in upper case and of another
\* requested amount than the stored row, equal to it in the compared fields
C26_Witness ==
  /\ pc = "notify"
  /\ SameInComparedFields = {1}
  /\ Applications[1].requestedAmount = Num(20)
  /\ StoredOf(1).requestedAmount = Num(10)
  /\ StoredOf(1).approvedAmount = Num(10)
  /\ portalRows[1].name = NameTwo
  /\ portalRows[1].email = IdAUpper
  /\ diff.unchangedCount = 1


(***************************************************************************)
(* C27.  Run-log counter.                                                  *)
(***************************************************************************)

\* C27: the changesDetected value logged for a cycle is the number of
\* notifications sent in the cycle, and is 0 on a baseline run.
C27_RunLogCounter ==
  (pc = "done" /\ errorMessage = "") =>
    /\ runLog[Len(runLog)].changesDetected = Len(delivered)
    /\ isFirstRun(existingApplications) => runLog[Len(runLog)].changesDetected = 0


(***************************************************************************)
(* C28.  All-or-nothing persistence.                                       *)
(***************************************************************************)
\* C28: when upsertApplications has failed, the sheet holds exactly the
\* applications the cycle read from it.
C28_AllOrNothing ==
  errorMessage = "upsertApplications" => getApplications(store) = existingApplications


(***************************************************************************)
(* C29.  Exactly once across cycles.                                       *)
(***************************************************************************)
\* two notifications of the same change
SameChange(p, q) ==
  /\ p.applicationId = q.applicationId
  /\ p.type = q.type
  /\ p.field = q.field
  /\ p.previousValue = q.previousValue
  /\ p.newValue = q.newValue

\* C29: the same change (same applicationId, same field, same previous and
\* new value) is posted to Slack in at most one cycle.
C29_ExactlyOnceAcrossCycles ==
  \A p \in slackChannel : \A q \in slackChannel :
    SameChange(p, q) => p.postedIn = q.postedIn

(***************************************************************************)
(* C30.  No false change after a render failure.                           *)
(***************************************************************************)
OptionalFields == {"approvedAmount", "notes", "lossReason"}

\* the first of the two cycles has completed successfully
FirstCycleSucceeded == Len(runLog) >= 2 /\ runLog[2].status = "Success"

\* C30: an optional field stored with a value, observed null or empty in one
\* successful cycle and observed with the same value in the next cycle has no
\* change event in either cycle.
C30_NoFalseChangeAfterRenderFailure ==
  (Diffed /\ Len(Applications) = 1) =>
    \A f \in OptionalFields :
      /\ (cycle = 1 /\ ~Present(FieldValue(Applications[1], f)))
           => FieldEventsOf(1, f) = << >>
      /\ (/\ cycle = 2
          /\ FirstCycleSucceeded
          /\ StoredOf(1).lastScrapedAt = toISOString(1)
          /\ ~Present(FieldValue(StoredOf(1), f))
          /\ FieldValue(Applications[1], f) = FieldValue(FollowUpStored, f))
           => FieldEventsOf(1, f) = << >>

====
